---------------------------- MODULE Spec2Model ----------------------------
(***************************************************************************)
(* Rollback generation endpoint of the apps API server:                    *)
(* pkg/apps/apiserver/registry/rollback/rest.go, REST.Create.              *)
(*                                                                         *)
(* One invocation of Create is modelled as a sequence of steps, one per    *)
(* statement group of the function, over two read-only stores (the         *)
(* deployment config client and the replication controller client).        *)
(* The rollback generator called on the last line (GenerateRollback) is    *)
(* not part of rest.go; it is modelled from its specified contract.        *)
(***************************************************************************)
EXTENDS Integers, Sequences, FiniteSets, TLC

(* ------------------------------ bounds --------------------------------- *)

\* Largest Status.LatestVersion a stored deployment config has, and largest
\* revision for which a replication controller may exist.
MaxRev == 2

(* ------------------------------ data ----------------------------------- *)

\* Names of deployment configs a request can carry.
Names == {"frontend"}

\* Annotation keys.
Keys == {"a", "b"}

\* The four structural parts of a deployment config a rollback can restore.
Fields == {"template", "replicationMeta", "strategy", "triggers"}

\* A Go map[string]string: nil, or a mapping (possibly empty).
NilMap == [isNil |-> TRUE, m |-> <<>>]

MapOf(f) == [isNil |-> FALSE, m |-> f]

\* len(m) of a Go map: 0 for nil.
MapLen(a) == IF a.isNil THEN 0 ELSE Cardinality(DOMAIN a.m)

\* The partial functions Keys -> vals, as Go maps.
MapsInto(vals) == {MapOf(f) : f \in UNION {[ks -> vals] : ks \in SUBSET Keys}}

\* Annotations a stored config may carry (nil included), and the
\* UpdatedAnnotations a request may carry.
StoredAnnotations == {NilMap} \cup MapsInto({"1"})

RequestAnnotations == MapsInto({"2"})

\* The structural content of the config as it was deployed at version v.
SpecAt(v) == [f \in Fields |-> <<f, v>>]

\* The zero value of a structural part.
NoSpec == [f \in Fields |-> <<f, -1>>]

\* A deployment config object; apiVersion tells the external (v1) from the
\* internal representation.
Config(n, v, a, s, av) ==
  [name |-> n, latestVersion |-> v, annotations |-> a, spec |-> s, apiVersion |-> av]

NoConfig == Config("", 0, NilMap, NoSpec, "")

Configs == {Config(n, v, a, SpecAt(v), "v1") :
              n \in Names, v \in 0..MaxRev, a \in StoredAnnotations}

\* appsutil.DeploymentNameForConfigVersion: the name of the replication
\* controller realising version v of config n.
DeploymentNameForConfigVersion(n, v) == <<n, v>>

\* A replication controller: it carries an encoded deployment config, which
\* may be undecodable.
Deployment(n, v, decodable) ==
  [name |-> DeploymentNameForConfigVersion(n, v),
   decodable |-> decodable,
   encoded |-> Config(n, v, NilMap, SpecAt(v), "v1")]

NoDeployment == [name |-> <<"", 0>>, decodable |-> FALSE, encoded |-> NoConfig]

\* The request: DeploymentConfigRollback{Name, UpdatedAnnotations, Spec}.
Requests ==
  [name : Names,
   revision : 0..(MaxRev + 1),
   include : [Fields -> BOOLEAN],
   updatedAnnotations : RequestAnnotations]

NoRequest ==
  [name |-> "", revision |-> 0, include |-> [f \in Fields |-> FALSE],
   updatedAnnotations |-> NilMap]

\* The stages of Create, in program order.
Stages == <<"validate", "getConfig", "checkVersion", "getDeployment",
            "decode", "mergeAnnotations", "generate">>

(* ------------------------------ errors --------------------------------- *)

NoError == [class |-> "", kind |-> "", field |-> ""]

\* apierrors.NewBadRequest
NewBadRequest(kind) == [class |-> "BadRequest", kind |-> kind, field |-> ""]

\* apierrors.NewInvalid with the validator's own field errors
NewInvalid(kind) == [class |-> "Invalid", kind |-> kind, field |-> "spec"]

\* apierrors.NewInternalError
NewInternalError(kind) == [class |-> "InternalError", kind |-> kind, field |-> ""]

\* The error a createValidation admission function returns, passed through.
AdmissionError == [class |-> "Admission", kind |-> "rejected", field |-> ""]

\* A variant that reports the failure as a NotFound status instead.
newNotFoundError(reason) == [class |-> "NotFound", kind |-> reason, field |-> "name"]

\* newInvalidError: field.Invalid on path "name", wrapped in NewInvalid.
newInvalidError(reason) == [class |-> "Invalid", kind |-> reason, field |-> "name"]

(* ------------------------------ state ---------------------------------- *)

VARIABLES
  dcStore,       \* deployment configs: a function on a subset of Names
  rcStore,       \* replication controllers: a function on deployment names
  pc,            \* "idle", a stage of Create, or "done"
  rollback,      \* the request of the invocation in progress
  from,          \* the config read from dcStore (a private copy)
  revision,      \* the revision chosen for lookup
  name,          \* the name of the replication controller looked up
  targetDeployment, \* the replication controller read from rcStore
  toInternal,    \* the decoded, converted target config
  fromInternal,  \* the converted current config handed to the generator
  result,        \* the returned object
  err,           \* the returned error
  log            \* the stages this invocation has run, in order

vars == <<dcStore, rcStore, pc, rollback, from, revision, name, targetDeployment,
          toInternal, fromInternal, result, err, log>>

stores == <<dcStore, rcStore>>

locals == <<from, revision, name, targetDeployment, toInternal, fromInternal>>

DCStores == {<<>>} \cup {[n \in Names |-> c] : c \in Configs}

\* Replication controllers exist for some of the revisions 1..MaxRev of
\* each config name; some of those hold an undecodable config.
RCStores ==
  {[nm \in {DeploymentNameForConfigVersion(n, v) : n \in Names, v \in present} |->
      Deployment(nm[1], nm[2], nm[2] \notin bad)] :
        present \in SUBSET (1..MaxRev), bad \in SUBSET (1..MaxRev)}

Init ==
  /\ dcStore \in DCStores
  /\ rcStore \in RCStores
  /\ pc = "idle"
  /\ rollback = NoRequest
  /\ from = NoConfig
  /\ revision = 0
  /\ name = NoDeployment.name
  /\ targetDeployment = NoDeployment
  /\ toInternal = NoConfig
  /\ fromInternal = NoConfig
  /\ result = NoConfig
  /\ err = NoError
  /\ log = <<>>

(* ----------------------------- helpers --------------------------------- *)

\* A return with an error: nothing else is returned.
Fail(e) ==
  /\ err' = e
  /\ pc' = "done"
  /\ UNCHANGED result

\* Variants of the switch: without the "already latest" case, with that case
\* tried first, and without the "undeployed" case.
SwitchWithoutLatestCase(latestVersion, requested) ==
  IF latestVersion = 0 THEN "undeployed"
  ELSE IF latestVersion = 1 THEN "noPrevious"
  ELSE ""

SwitchRequestedFirst(latestVersion, requested) ==
  IF latestVersion = requested THEN "alreadyLatest"
  ELSE IF latestVersion = 0 THEN "undeployed"
  ELSE IF latestVersion = 1 THEN "noPrevious"
  ELSE ""

SwitchWithoutUndeployedCase(latestVersion, requested) ==
  IF latestVersion = 1 THEN "noPrevious"
  ELSE IF latestVersion = requested THEN "alreadyLatest"
  ELSE ""

\* The switch on from.Status.LatestVersion: the reason of the error it
\* returns, or "" when no case applies.  Cases are tried top to bottom.
LatestVersionSwitch(latestVersion, requested) ==
  IF latestVersion = 0 THEN "undeployed"
  ELSE IF latestVersion = 1 THEN "noPrevious"
  ELSE IF latestVersion = requested THEN "alreadyLatest"
  ELSE ""

\* A variant that ignores the requested revision.
SelectPreviousRevision(latestVersion, requested) == latestVersion - 1

\* The revision to look up: the previous one unless the request names one.
SelectRevision(latestVersion, requested) ==
  IF requested > 0 THEN requested ELSE latestVersion - 1

\* A variant in which a key already present keeps its value.
UpdateAnnotationsKeepExisting(annotations, updated) ==
  LET base == IF annotations.isNil /\ MapLen(updated) > 0 THEN MapOf(<<>>)
              ELSE annotations
  IN  IF MapLen(updated) = 0 THEN base
      ELSE MapOf([k \in DOMAIN base.m \cup DOMAIN updated.m |->
                    IF k \in DOMAIN base.m THEN base.m[k] ELSE updated.m[k]])

\* from.Annotations after the UpdatedAnnotations loop: a nil map is made
\* only when there is something to store; every request key is set.
UpdateAnnotations(annotations, updated) ==
  LET base == IF annotations.isNil /\ MapLen(updated) > 0 THEN MapOf(<<>>)
              ELSE annotations
  IN  IF MapLen(updated) = 0 THEN base
      ELSE MapOf([k \in DOMAIN base.m \cup DOMAIN updated.m |->
                    IF k \in DOMAIN updated.m THEN updated.m[k] ELSE base.m[k]])

\* appsserialization.DecodeDeploymentConfig: the config encoded in the
\* replication controller.
DecodeDeploymentConfig(rc) == rc.encoded

\* legacyscheme.Scheme.Convert from the external to the internal type.
Convert(c) == [c EXCEPT !.apiVersion = "internal"]

\* RollbackGenerator.GenerateRollback: a copy of `current` in which each
\* included structural part is taken from `target`.
GenerateRollback(current, target, include) ==
  [current EXCEPT !.spec = [f \in Fields |->
     IF include[f] THEN target.spec[f] ELSE current.spec[f]]]

(* ----------------------------- actions --------------------------------- *)

\* A caller invokes Create with a request.
Start ==
  /\ pc = "idle"
  /\ \E r \in Requests : rollback' = r
  /\ pc' = "validate"
  /\ UNCHANGED <<stores, locals, result, err, log>>

\* Lines 52-66: namespace from the context, the type assertion, structural
\* validation and the caller's createValidation.  Their outcomes are the
\* collaborators' to decide.
Validate ==
  /\ pc = "validate"
  /\ log' = Append(log, "validate")
  /\ \E outcome \in {"ok", "noNamespace", "notRollback", "invalid", "rejected"} :
       CASE outcome = "noNamespace" -> Fail(NewBadRequest("namespaceRequired"))
         [] outcome = "notRollback" -> Fail(NewBadRequest("notRollbackSpec"))
         [] outcome = "invalid" -> Fail(NewInvalid("validation"))
         [] outcome = "rejected" -> Fail(AdmissionError)
         [] OTHER -> pc' = "getConfig" /\ UNCHANGED <<result, err>>
  /\ UNCHANGED <<stores, rollback, locals>>

\* Lines 68-71: read the deployment config named by the request.
GetConfig ==
  /\ pc = "getConfig"
  /\ log' = Append(log, "getConfig")
  /\ IF rollback.name \in DOMAIN dcStore
       THEN /\ from' = dcStore[rollback.name]
            /\ pc' = "checkVersion"
            /\ UNCHANGED <<result, err>>
       ELSE /\ Fail(newInvalidError("cannotGetConfig"))
            /\ UNCHANGED from
  /\ UNCHANGED <<stores, rollback, revision, name, targetDeployment,
                 toInternal, fromInternal>>

\* Lines 73-80: the three revision precondition checks.
CheckVersion ==
  /\ pc = "checkVersion"
  /\ log' = Append(log, "checkVersion")
  /\ LET reason == LatestVersionSwitch(from.latestVersion, rollback.revision)
     IN  IF reason = ""
         THEN pc' = "getDeployment" /\ UNCHANGED <<result, err>>
         ELSE Fail(newInvalidError(reason))
  /\ UNCHANGED <<stores, rollback, locals>>

\* A variant that asks the store again when the replication controller is
\* missing.
GetDeploymentRetrying ==
  /\ pc = "getDeployment"
  /\ log' = Append(log, "getDeployment")
  /\ revision' = SelectRevision(from.latestVersion, rollback.revision)
  /\ name' = DeploymentNameForConfigVersion(from.name, revision')
  /\ IF name' \in DOMAIN rcStore
       THEN /\ targetDeployment' = rcStore[name']
            /\ pc' = "decode"
       ELSE UNCHANGED <<targetDeployment, pc>>
  /\ UNCHANGED <<stores, rollback, from, toInternal, fromInternal, result, err>>

\* Lines 82-92: choose the revision, derive the name, read the replication
\* controller.
GetDeployment ==
  /\ pc = "getDeployment"
  /\ log' = Append(log, "getDeployment")
  /\ revision' = SelectRevision(from.latestVersion, rollback.revision)
  /\ name' = DeploymentNameForConfigVersion(from.name, revision')
  /\ IF name' \in DOMAIN rcStore
       THEN /\ targetDeployment' = rcStore[name']
            /\ pc' = "decode"
            /\ UNCHANGED <<result, err>>
       ELSE /\ Fail(newInvalidError("revisionNotFound"))
            /\ UNCHANGED targetDeployment
  /\ UNCHANGED <<stores, rollback, from, toInternal, fromInternal>>

\* Lines 94-102: decode the config held by the replication controller and
\* convert it to the internal type; the conversion may fail.
Decode ==
  /\ pc = "decode"
  /\ log' = Append(log, "decode")
  /\ IF ~targetDeployment.decodable
       THEN Fail(newInvalidError("decode")) /\ UNCHANGED toInternal
       ELSE \E converts \in BOOLEAN :
              IF converts
              THEN /\ toInternal' = Convert(DecodeDeploymentConfig(targetDeployment))
                   /\ pc' = "mergeAnnotations"
                   /\ UNCHANGED <<result, err>>
              ELSE Fail(NewInternalError("conversion")) /\ UNCHANGED toInternal
  /\ UNCHANGED <<stores, rollback, from, revision, name, targetDeployment,
                 fromInternal>>

\* A variant in which `from` aliases the stored object, so the annotation
\* loop writes into the store.
MergeAnnotationsInStore ==
  /\ pc = "mergeAnnotations"
  /\ log' = Append(log, "mergeAnnotations")
  /\ from' = [from EXCEPT !.annotations =
                UpdateAnnotations(from.annotations, rollback.updatedAnnotations)]
  /\ dcStore' = [dcStore EXCEPT ![rollback.name] = from']
  /\ \E converts \in BOOLEAN :
       IF converts
       THEN /\ fromInternal' = Convert(from')
            /\ pc' = "generate"
            /\ UNCHANGED <<result, err>>
       ELSE Fail(NewInternalError("conversion")) /\ UNCHANGED fromInternal
  /\ UNCHANGED <<rcStore, rollback, revision, name, targetDeployment, toInternal>>

\* Lines 104-114: apply the request's UpdatedAnnotations to the config read
\* (the private copy, not the store) and convert it; the conversion may fail.
MergeAnnotations ==
  /\ pc = "mergeAnnotations"
  /\ log' = Append(log, "mergeAnnotations")
  /\ from' = [from EXCEPT !.annotations =
                UpdateAnnotations(from.annotations, rollback.updatedAnnotations)]
  /\ \E converts \in BOOLEAN :
       IF converts
       THEN /\ fromInternal' = Convert(from')
            /\ pc' = "generate"
            /\ UNCHANGED <<result, err>>
       ELSE Fail(NewInternalError("conversion")) /\ UNCHANGED fromInternal
  /\ UNCHANGED <<stores, rollback, revision, name, targetDeployment, toInternal>>

\* A variant that hands the two configs to the generator in the wrong order.
GenerateSwapped ==
  /\ pc = "generate"
  /\ log' = Append(log, "generate")
  /\ result' = GenerateRollback(toInternal, fromInternal, rollback.include)
  /\ pc' = "done"
  /\ UNCHANGED <<stores, rollback, locals, err>>

\* Line 116: hand both configs and the request's spec to the generator and
\* return what it returns.
Generate ==
  /\ pc = "generate"
  /\ log' = Append(log, "generate")
  /\ result' = GenerateRollback(fromInternal, toInternal, rollback.include)
  /\ pc' = "done"
  /\ UNCHANGED <<stores, rollback, locals, err>>

\* The invocation is over; its request, locals and return values are gone.
Return ==
  /\ pc = "done"
  /\ pc' = "idle"
  /\ rollback' = NoRequest
  /\ from' = NoConfig
  /\ revision' = 0
  /\ name' = NoDeployment.name
  /\ targetDeployment' = NoDeployment
  /\ toInternal' = NoConfig
  /\ fromInternal' = NoConfig
  /\ result' = NoConfig
  /\ err' = NoError
  /\ log' = <<>>
  /\ UNCHANGED stores

Next ==
  \/ Start
  \/ Validate
  \/ GetConfig
  \/ CheckVersion
  \/ GetDeployment
  \/ Decode
  \/ MergeAnnotations
  \/ Generate
  \/ Return

Spec == Init /\ [][Next]_vars


(* ------------------------------ claims --------------------------------- *)

\* Stage s has run in the invocation in progress.
InLog(s) == \E i \in DOMAIN log : log[i] = s

\* The invocation returned an object and no error.
Succeeded == pc = "done" /\ err = NoError

\* Key k is present in Go map a.
Has(a, k) == ~a.isNil /\ k \in DOMAIN a.m

\* C1: the returned config takes each of the four structural parts from the
\* target revision's record when the request includes that part, and from
\* the stored current config when it does not.
C1_ResultTakesEachPartByItsFlag ==
  Succeeded =>
    \A f \in Fields :
      result.spec[f] = IF rollback.include[f]
                       THEN rcStore[name].encoded.spec[f]
                       ELSE dcStore[rollback.name].spec[f]

\* C1 witness: a template-only rollback returned the target's template and
\* the current config's other three parts, the two configs differing.
C1_Witness ==
  /\ Succeeded
  /\ rollback.include = [f \in Fields |-> f = "template"]
  /\ result.spec["template"] = rcStore[name].encoded.spec["template"]
  /\ result.spec["template"] # dcStore[rollback.name].spec["template"]
  /\ result.spec["strategy"] = dcStore[rollback.name].spec["strategy"]
  /\ result.spec["strategy"] # rcStore[name].encoded.spec["strategy"]

\* C2: once the history store has been asked, the name looked up is the one
\* derived from the current config's name and the requested revision when
\* that is positive, and from latestVersion - 1 otherwise.
C2_LookupRevision ==
  InLog("getDeployment") =>
    /\ rollback.revision > 0 =>
         name = DeploymentNameForConfigVersion(dcStore[rollback.name].name,
                                               rollback.revision)
    /\ rollback.revision <= 0 =>
         name = DeploymentNameForConfigVersion(dcStore[rollback.name].name,
                                               dcStore[rollback.name].latestVersion - 1)

\* C2 witness: revision 0 against the largest latestVersion looked up the
\* revision just below it.
C2_Witness ==
  /\ InLog("getDeployment")
  /\ rollback.revision = 0
  /\ from.latestVersion = MaxRev
  /\ name = <<"frontend", MaxRev - 1>>

\* C3 as stated: whenever the precondition checks ran with the requested
\* revision positive and equal to latestVersion, the call failed with the
\* "already latest" error.
C3_AsStated ==
  (InLog("checkVersion") /\ rollback.revision > 0
     /\ rollback.revision = from.latestVersion)
  => (pc = "done" /\ err.kind = "alreadyLatest")

\* C3 amended: the same, for latestVersion other than 1 (at latestVersion 1
\* the "no previous deployment" check comes first).
C3_AlreadyLatestAboveOne ==
  (InLog("checkVersion") /\ rollback.revision > 0
     /\ rollback.revision = from.latestVersion /\ from.latestVersion # 1)
  => (pc = "done" /\ err.kind = "alreadyLatest" /\ err.class = "Invalid"
      /\ result = NoConfig /\ ~InLog("getDeployment"))

\* C3 witness: a request for the latest revision of a config deployed more
\* than once was refused as already latest.
C3_Witness ==
  /\ pc = "done"
  /\ rollback.revision = MaxRev
  /\ from.latestVersion = MaxRev
  /\ err.kind = "alreadyLatest"

\* C4: with latestVersion 1 the call fails with the "no previous
\* deployment" error whatever revision is requested, returns no object and
\* never asks the history store.
C4_NoPreviousAtOne ==
  (InLog("checkVersion") /\ from.latestVersion = 1)
  => (pc = "done" /\ err.kind = "noPrevious" /\ result = NoConfig
      /\ ~InLog("getDeployment"))

\* C4 witness: revision 1 requested of a config at latestVersion 1.
C4_Witness ==
  /\ pc = "done"
  /\ from.latestVersion = 1
  /\ rollback.revision = 1
  /\ err.kind = "noPrevious"

\* C5: with latestVersion 0 the call fails with the "undeployed" error
\* whatever revision is requested (0 included), returns no object and never
\* asks the history store.
C5_UndeployedAtZero ==
  (InLog("checkVersion") /\ dcStore[rollback.name].latestVersion = 0)
  => (pc = "done" /\ err.kind = "undeployed" /\ result = NoConfig
      /\ ~InLog("getDeployment"))

\* C5 witness: revision 0 requested of a config never deployed.
C5_Witness ==
  /\ pc = "done"
  /\ InLog("checkVersion")
  /\ dcStore[rollback.name].latestVersion = 0
  /\ rollback.revision = 0
  /\ err.kind = "undeployed"

\* C6 as stated: whenever the history store is asked with a nonzero
\* requested revision, that revision is strictly below latestVersion.
C6_AsStated ==
  (InLog("getDeployment") /\ rollback.revision # 0)
  => rollback.revision < from.latestVersion

\* C7: the annotations of the config handed to the generator are the stored
\* config's annotations overridden by the request's: a request key carries
\* the request's value, any other stored key its stored value, and no other
\* key is present.
C7_BaseAnnotations ==
  InLog("generate") =>
    LET cur == dcStore[rollback.name].annotations
        upd == rollback.updatedAnnotations
        got == fromInternal.annotations
    IN  \A k \in Keys :
          /\ Has(upd, k) => (Has(got, k) /\ got.m[k] = upd.m[k])
          /\ (~Has(upd, k) /\ Has(cur, k)) => (Has(got, k) /\ got.m[k] = cur.m[k])
          /\ (~Has(upd, k) /\ ~Has(cur, k)) => ~Has(got, k)

\* C7 witness: stored {a:1} with overrides for a and b reached the
\* generator as the overrides' values for both keys.
C7_Witness ==
  /\ InLog("generate")
  /\ dcStore[rollback.name].annotations = MapOf([k \in {"a"} |-> "1"])
  /\ rollback.updatedAnnotations = MapOf([k \in {"a", "b"} |-> "2"])
  /\ fromInternal.annotations = MapOf([k \in {"a", "b"} |-> "2"])

\* C8 as stated: a missing config, a missing replication controller and an
\* undecodable record are never reported with the class of an invalid
\* request.
C8_AsStated ==
  (pc = "done" /\ err.kind \in {"cannotGetConfig", "revisionNotFound", "decode"})
  => err.class # "Invalid"

\* C8 amended: the error class tells only an invalid request from an
\* internal conversion failure (and from the namespace and type checks'
\* bad request): a missing config, the three revision preconditions, a
\* missing replication controller and an undecodable record are all Invalid
\* errors on the field "name", like a structurally invalid request, and
\* differ by reason only; a conversion failure is an internal error.
C8_ErrorClasses ==
  (pc = "done" /\ err # NoError) =>
    /\ err.kind \in {"cannotGetConfig", "undeployed", "noPrevious",
                     "alreadyLatest", "revisionNotFound", "decode"}
         => (err.class = "Invalid" /\ err.field = "name")
    /\ err.kind = "validation" => err.class = "Invalid"
    /\ err.kind = "conversion" => err.class = "InternalError"
    /\ err.kind \in {"namespaceRequired", "notRollbackSpec"}
         => err.class = "BadRequest"

\* C8 witness: an undecodable record was reported as an Invalid error.
C8_Witness ==
  /\ pc = "done"
  /\ err.kind = "decode"
  /\ err.class = "Invalid"
  /\ ~targetDeployment.decodable

\* C9: no step of any invocation changes either store.
C9_StoresNeverWritten ==
  [][dcStore' = dcStore /\ rcStore' = rcStore]_vars

\* C9 witness: an invocation returned a config whose annotations carry the
\* request's overrides while the stored config's do not.
C9_Witness ==
  /\ Succeeded
  /\ MapLen(rollback.updatedAnnotations) > 0
  /\ result.annotations = UpdateAnnotations(dcStore[rollback.name].annotations,
                                            rollback.updatedAnnotations)
  /\ result.annotations # dcStore[rollback.name].annotations

\* C10: the stages run in program order, each at most once; the history
\* store is asked only after the config was read and the precondition
\* checks passed; an unfinished invocation can always take its next stage;
\* an error ends the invocation; a finished invocation has returned either
\* an object or an error, never both and never neither.
C10_StageOrder ==
  /\ Len(log) <= Len(Stages)
  /\ \A i \in DOMAIN log : log[i] = Stages[i]
  /\ pc \notin {"idle", "done"} =>
       (Len(log) < Len(Stages) /\ pc = Stages[Len(log) + 1]
        /\ err = NoError /\ result = NoConfig)
  /\ pc \notin {"idle", "done"} =>
       ENABLED (Validate \/ GetConfig \/ CheckVersion \/ GetDeployment
                  \/ Decode \/ MergeAnnotations \/ Generate)
  /\ err # NoError => (pc = "done" /\ result = NoConfig)
  /\ result # NoConfig => (pc = "done" /\ err = NoError /\ log = Stages)
  /\ pc = "done" => ((err # NoError) # (result # NoConfig))
  /\ InLog("getDeployment") =>
       (rollback.name \in DOMAIN dcStore
        /\ from.name = dcStore[rollback.name].name
        /\ from.latestVersion = dcStore[rollback.name].latestVersion
        /\ from.latestVersion \notin {0, 1}
        /\ from.latestVersion # rollback.revision)

\* C10 witness: an invocation that failed at decode ran exactly the first
\* five stages and returned the error alone.
C10_Witness ==
  /\ pc = "done"
  /\ err.kind = "decode"
  /\ result = NoConfig
  /\ log = SubSeq(Stages, 1, 5)

=============================================================================
